---- MODULE Spec2Model ----
(***************************************************************************)
(* Liquidity-risk dashboard of a fund of funds (src/app.py).               *)
(*                                                                         *)
(* The program is a Streamlit script: every interaction re-runs it from    *)
(* top to bottom, and only st.session_state (n_ativos) survives a run.     *)
(* One run is modelled as the sequence of its sections:                    *)
(*   Sidebar -> Carregar -> Demanda -> Carteira -> Resultados -> KPIs      *)
(*           -> Alertas -> (Rerun)                                         *)
(*                                                                         *)
(* Both file readers (read_csv, read_excel) yield a table and are one     *)
(* step.  An uncaught exception ends the run (pc in Crashed), st.stop()    *)
(* ends it with pc = "stopped".  The template download, the chart and the  *)
(* janela_hist slider (read, never used) have no effect on the results     *)
(* and are left out.                                                       *)
(*                                                                         *)
(* Numbers.  Money amounts are integers.  np.percentile(.., 99) multiplies *)
(* by 0.99, so a stressed demand is kept exactly as an integer number of   *)
(* hundredths (Escala); IL and the mismatch percentage are quotients and   *)
(* are kept exactly as numerator / denominator pairs.  Comparisons of      *)
(* quotients are done by cross-multiplication.  Floating-point rounding is *)
(* not modelled.                                                           *)
(***************************************************************************)
EXTENDS Integers, Sequences, FiniteSets, TLC

VARIABLES
    pc,                  \* section of the script the run is at
    n_ativos,            \* st.session_state.n_ativos (0: key not in session_state)
    prazo_resgate_fof,   \* sidebar: redemption notice period of the FoF (D+X)
    df_hist,             \* the history data frame, or None
    pl_total,            \* net asset value used by the KPIs
    vertices,            \* ascending list of evaluated horizons
    demanda_por_vertice, \* vertex -> stressed demand, in hundredths
    df_carteira,         \* list of holdings [Prazo, Valor]
    df_il,               \* result table, one row per vertex
    il_fof,              \* IL at the FoF's own horizon
    mismatch_val,        \* value of holdings slower than the FoF
    mismatch_perc,       \* mismatch_val / pl_total * 100
    mensagens            \* st.error / st.warning / st.success calls, in order

vars == <<pc, n_ativos, prazo_resgate_fof, df_hist, pl_total, vertices,
          demanda_por_vertice, df_carteira, df_il, il_fof, mismatch_val,
          mismatch_perc, mensagens>>

----------------------------------------------------------------------------
(* Bounds of the model *)

MaxLen == 4          \* longest history of the flow-rich specification
ShortLen == 1        \* longest history of the portfolio-rich specification
DataLen == 2         \* longest history of the schema/timestamp specification
MaxAtivos == 4       \* n_ativos stops growing here

----------------------------------------------------------------------------
(* Values *)

Escala == 100        \* demands are kept in hundredths (percentile 99 = 99/100)
Percentil == 99
MismatchLimite == 25
SoftLimitNum == 125  \* soft limit 1.25 = SoftLimitNum / Escala
AtivosIniciais == 3
Cento == 100         \* "* 100" of the mismatch percentage

\* Column names are sequences of tokens; " " is a whitespace token.
Resgates_Brutos == <<"Resgates_Brutos">>
Aportes_do_Dia == <<"Aportes_do_Dia">>
Patrimonio_Liquido == <<"Patrimonio_Liquido">>
Data == <<"Data">>
Fluxo_Liquido == <<"Fluxo_Liquido">>
Fluxo_Risco == <<"Fluxo_Risco">>

required_cols == {Resgates_Brutos, Aportes_do_Dia, Patrimonio_Liquido}

\* Python's None for df_hist, and numpy's nan for a quotient.
None == [isNone |-> TRUE, columns |-> {}, rows |-> <<>>]
NaN == [nan |-> TRUE, num |-> 0, den |-> 1]
Quociente(n, d) == [nan |-> FALSE, num |-> n, den |-> d]

----------------------------------------------------------------------------
(* Pure helpers *)

RECURSIVE LStrip(_)
LStrip(s) == IF s # <<>> /\ Head(s) = " " THEN LStrip(Tail(s)) ELSE s

RECURSIVE RStrip(_)
RStrip(s) ==
    IF s # <<>> /\ s[Len(s)] = " " THEN RStrip(SubSeq(s, 1, Len(s) - 1)) ELSE s

\* str.strip()
Strip(s) == RStrip(LStrip(s))

RECURSIVE SumSeq(_)
SumSeq(s) == IF s = <<>> THEN 0 ELSE Head(s) + SumSeq(Tail(s))

\* insertion of x into an ascending sequence
RECURSIVE Insert(_, _)
Insert(x, s) ==
    IF s = <<>> THEN <<x>>
    ELSE IF x <= Head(s) THEN <<x>> \o s
    ELSE <<Head(s)>> \o Insert(x, Tail(s))

RECURSIVE SortAsc(_)
SortAsc(s) == IF s = <<>> THEN <<>> ELSE Insert(Head(s), SortAsc(Tail(s)))

RECURSIVE SetToSortedSeq(_)
SetToSortedSeq(S) ==
    IF S = {} THEN <<>>
    ELSE LET m == CHOOSE x \in S : \A y \in S : x <= y
         IN  <<m>> \o SetToSortedSeq(S \ {m})

\* variant: the sign is kept (abs forgotten)
FluxoRisco_Mut(x) == IF x < 0 THEN x ELSE 0

\* lambda x: abs(x) if x < 0 else 0
FluxoRisco(x) == IF x < 0 THEN -x ELSE 0

\* np.percentile(a, 99), default (linear) method, in hundredths:
\* virtual index 0.99 * (n - 1), interpolated between its two neighbours.
Percentile99(a) ==
    LET s == SortAsc(a)
        n == Len(s)
        pos == Percentil * (n - 1)
        lo == pos \div Escala
        frac == pos % Escala
        hi == IF lo + 1 < n THEN lo + 1 ELSE n - 1
    IN  Escala * s[lo + 1] + frac * (s[hi + 1] - s[lo + 1])

\* variant: range(0, len(risco) - v), the last window is dropped
WindowStarts_Mut(n, v) == 1 .. (n - v)

\* range(0, len(risco) - v + 1), as 1-based window starts
WindowStarts(n, v) == 1 .. (n - v + 1)

demanda_estressada(historico, v) ==
    IF historico.isNone \/ Len(historico.rows) < v THEN 0
    ELSE LET risco == [i \in 1 .. Len(historico.rows) |->
                          historico.rows[i][Fluxo_Risco]]
             starts == WindowStarts(Len(risco), v)
             rolling_sums == [k \in starts |-> SumSeq(SubSeq(risco, k, k + v - 1))]
         IN  IF Len(rolling_sums) = 0 THEN 0 ELSE Percentile99(rolling_sums)

BaseVertices == {1, 5, 21, 42, 63}

\* variant: a list instead of a set, the duplicate is kept
Vertices_Mut(prazo) == SortAsc(<<1, 5, 21, 42, 63, prazo>>)

Vertices(prazo) == SetToSortedSeq(BaseVertices \cup {prazo})

\* variant: the comparison is reversed
Oferta_Mut(carteira, v) ==
    SumSeq([i \in 1 .. Len(carteira) |->
               IF carteira[i].Prazo >= v THEN carteira[i].Valor ELSE 0])

\* df_carteira[df_carteira["Prazo"] <= v]["Valor"].sum()
Oferta(carteira, v) ==
    SumSeq([i \in 1 .. Len(carteira) |->
               IF carteira[i].Prazo <= v THEN carteira[i].Valor ELSE 0])

\* df_carteira[df_carteira["Prazo"] > prazo]["Valor"].sum()
Mismatch(carteira, prazo) ==
    SumSeq([i \in 1 .. Len(carteira) |->
               IF carteira[i].Prazo > prazo THEN carteira[i].Valor ELSE 0])

\* variant: the guard lets a zero demand through
IL_Mut(oferta, demanda_v) ==
    IF demanda_v >= 0 THEN Quociente(Escala * oferta, demanda_v) ELSE NaN

\* oferta / demanda_v if demanda_v > 0 else np.nan   (demanda in hundredths)
IL(oferta, demanda_v) ==
    IF demanda_v > 0 THEN Quociente(Escala * oferta, demanda_v) ELSE NaN

\* f"D+{v}"
Rotulo(v) == <<"D+", v>>

Linha(carteira, demandas, v) ==
    LET oferta == Oferta(carteira, v)
        demanda_v == IF v \in DOMAIN demandas THEN demandas[v] ELSE 0
    IN  [Vertice |-> Rotulo(v), Oferta |-> oferta,
         Demanda_Estressada |-> demanda_v, IL |-> IL(oferta, demanda_v)]

\* (mismatch_val / pl_total * 100) if pl_total > 0 else 0
MismatchPerc(val, pl) ==
    IF pl > 0 THEN Quociente(Cento * val, pl) ELSE Quociente(0, 1)

\* q < a / b, for b > 0 and a defined quotient q with positive denominator
Menor(q, a, b) == q.num * b < a * q.den
Maior(q, a, b) == q.num * b > a * q.den
MenorOuIgual(q, a, b) == q.num * b <= a * q.den
MaiorOuIgual(q, a, b) == q.num * b >= a * q.den

----------------------------------------------------------------------------
(* Inputs: uploaded files *)

SeqsUpTo(S, n) == UNION {[1 .. k -> S] : k \in 0 .. n}

\* rows over the raw header set h, each cell drawn from the domain of its column
RowsOf(h, dom) ==
    {r \in [h -> UNION {dom[c] : c \in DOMAIN dom}] :
        \A c \in h : r[c] \in dom[Strip(c)]}

\* tables with one of the given header sets and at most maxlen rows
Files(headers, maxlen, dom) ==
    UNION {{[isNone |-> FALSE, columns |-> h, rows |-> rs] : rs \in SeqsUpTo(RowsOf(h, dom), maxlen)} :
              h \in headers}

Mensagem(nivel, texto) == [nivel |-> nivel, texto |-> texto]

----------------------------------------------------------------------------
(* State at the start of a run: nothing but the session state is defined *)

Fresh ==
    /\ prazo_resgate_fof = 0
    /\ df_hist = None
    /\ pl_total = 0
    /\ vertices = <<>>
    /\ demanda_por_vertice = <<>>
    /\ df_carteira = <<>>
    /\ df_il = <<>>
    /\ il_fof = NaN
    /\ mismatch_val = 0
    /\ mismatch_perc = Quociente(0, 1)
    /\ mensagens = <<>>

Init ==
    /\ pc = "sidebar"
    /\ n_ativos = 0
    /\ Fresh

----------------------------------------------------------------------------
(* The sections of the script *)

\* lines 26-28: the sidebar's number_input (min_value = 1)
Sidebar(Prazos) ==
    /\ pc = "sidebar"
    /\ \E p \in Prazos :
          /\ p >= 1
          /\ prazo_resgate_fof' = p
    /\ pc' = "carregar"
    /\ UNCHANGED <<n_ativos, df_hist, pl_total, vertices, demanda_por_vertice,
                   df_carteira, df_il, il_fof, mismatch_val, mismatch_perc,
                   mensagens>>

\* read_csv / read_excel followed by the strip of the column names
Lido(f) ==
    LET cols == {Strip(c) : c \in f.columns}
    IN  [isNone |-> FALSE,
         columns |-> cols,
         rows |-> [i \in 1 .. Len(f.rows) |->
                      [c \in cols |->
                          f.rows[i][CHOOSE r \in f.columns : Strip(r) = c]]]]

\* the two derived columns
ComFluxos(df) ==
    LET liquido(r) == r[Aportes_do_Dia] - r[Resgates_Brutos]
    IN  [isNone |-> FALSE,
         columns |-> df.columns \cup {Fluxo_Liquido, Fluxo_Risco},
         rows |-> [i \in 1 .. Len(df.rows) |->
                      [c \in df.columns \cup {Fluxo_Liquido, Fluxo_Risco} |->
                          IF c = Fluxo_Liquido THEN liquido(df.rows[i])
                          ELSE IF c = Fluxo_Risco
                               THEN FluxoRisco(liquido(df.rows[i]))
                          ELSE df.rows[i][c]]]]

SchemaOk(df) == required_cols \subseteq df.columns

\* lines 37-63: upload, schema check, flows, net asset value
Carregar(Arquivos, PLs) ==
    /\ pc = "carregar"
    /\ \E upload \in {None} \cup Arquivos :
          IF upload = None
          THEN \E pl \in PLs :
                  /\ mensagens' = Append(mensagens, Mensagem("warning", "sem historico"))
                  /\ pl_total' = pl
                  /\ df_hist' = None
                  /\ pc' = "demanda"
          ELSE LET lido == Lido(upload) IN
               IF ~SchemaOk(lido)
               THEN /\ df_hist' = lido
                    /\ mensagens' = Append(mensagens, Mensagem("error", "colunas"))
                    /\ pc' = "stopped"                       \* st.stop()
                    /\ UNCHANGED pl_total
               ELSE /\ df_hist' = ComFluxos(lido)
                    /\ mensagens' = Append(mensagens, Mensagem("success", "carregado"))
                    /\ IF Len(lido.rows) = 0
                       THEN /\ pc' = "IndexError_pl"         \* .iloc[0] of no rows
                            /\ UNCHANGED pl_total
                       ELSE /\ pl_total' = lido.rows[1][Patrimonio_Liquido]
                            /\ pc' = "demanda"
    /\ UNCHANGED <<n_ativos, prazo_resgate_fof, vertices, demanda_por_vertice,
                   df_carteira, df_il, il_fof, mismatch_val, mismatch_perc>>

\* lines 86-87
Demanda ==
    /\ pc = "demanda"
    /\ vertices' = Vertices(prazo_resgate_fof)
    /\ demanda_por_vertice' =
          [v \in BaseVertices \cup {prazo_resgate_fof} |->
              demanda_estressada(df_hist, v)]
    /\ pc' = "carteira"
    /\ UNCHANGED <<n_ativos, prazo_resgate_fof, df_hist, pl_total, df_carteira,
                   df_il, il_fof, mismatch_val, mismatch_perc, mensagens>>

\* lines 94-108: the session counter, the button and one row of widgets per fund.
\* The default of the first "Valor" widget is pl_total / n_ativos with
\* min_value = 0.0: for a negative pl_total the widget library may reject the
\* default and end the run; both outcomes are allowed.
Carteira(Fundos) ==
    /\ pc = "carteira"
    /\ \E clicked \in BOOLEAN, falha \in BOOLEAN :
          LET n0 == IF n_ativos = 0 THEN AtivosIniciais ELSE n_ativos
              n1 == IF clicked THEN n0 + 1 ELSE n0
          IN  /\ clicked => n0 < MaxAtivos
              /\ falha => pl_total < 0
              /\ n_ativos' = n1
              /\ IF falha
                 THEN /\ pc' = "StreamlitAPIException_valor"
                      /\ UNCHANGED df_carteira
                 ELSE /\ \E ativos \in [1 .. n1 -> Fundos] :
                            /\ \A i \in 1 .. n1 :
                                  ativos[i].Prazo >= 0 /\ ativos[i].Valor >= 0
                            /\ df_carteira' = ativos
                      /\ pc' = "resultados"
    /\ UNCHANGED <<prazo_resgate_fof, df_hist, pl_total, vertices,
                   demanda_por_vertice, df_il, il_fof, mismatch_val,
                   mismatch_perc, mensagens>>

\* lines 113-125
Resultados ==
    /\ pc = "resultados"
    /\ df_il' = [k \in 1 .. Len(vertices) |->
                    Linha(df_carteira, demanda_por_vertice, vertices[k])]
    /\ pc' = "kpi"
    /\ UNCHANGED <<n_ativos, prazo_resgate_fof, df_hist, pl_total, vertices,
                   demanda_por_vertice, df_carteira, il_fof, mismatch_val,
                   mismatch_perc, mensagens>>

\* df_il[df_il["Vértice"] == rotulo]["IL"].values
ILDe(tabela, rotulo) ==
    LET idx == {k \in 1 .. Len(tabela) : tabela[k].Vertice = rotulo}
    IN  [j \in 1 .. Cardinality(idx) |->
            tabela[CHOOSE k \in idx : Cardinality({m \in idx : m < k}) = j - 1].IL]

\* lines 130-137
KPIs ==
    /\ pc = "kpi"
    /\ LET achados == ILDe(df_il, Rotulo(prazo_resgate_fof))
       IN  IF Len(achados) = 0
           THEN /\ pc' = "IndexError_il"                     \* .values[0] of no rows
                /\ UNCHANGED <<il_fof, mismatch_val, mismatch_perc>>
           ELSE /\ il_fof' = achados[1]
                /\ mismatch_val' = Mismatch(df_carteira, prazo_resgate_fof)
                /\ mismatch_perc' =
                      MismatchPerc(Mismatch(df_carteira, prazo_resgate_fof), pl_total)
                /\ pc' = "alertas"
    /\ UNCHANGED <<n_ativos, prazo_resgate_fof, df_hist, pl_total, vertices,
                   demanda_por_vertice, df_carteira, df_il, mensagens>>

\* variant: the lower boundary is inclusive on the wrong side
AlertasIL_Mut(il) ==
    IF ~il.nan
    THEN IF MenorOuIgual(il, 1, 1) THEN <<Mensagem("error", "IL < 1")>>
         ELSE IF Menor(il, SoftLimitNum, Escala)
              THEN <<Mensagem("warning", "soft limit")>>
         ELSE <<Mensagem("success", "IL confortavel")>>
    ELSE <<>>

\* lines 154-160
AlertasIL(il) ==
    IF ~il.nan
    THEN IF Menor(il, 1, 1) THEN <<Mensagem("error", "IL < 1")>>
         ELSE IF Menor(il, SoftLimitNum, Escala)
              THEN <<Mensagem("warning", "soft limit")>>
         ELSE <<Mensagem("success", "IL confortavel")>>
    ELSE <<>>

\* variant: the limit itself already fires
AlertasMismatch_Mut(perc) ==
    IF MaiorOuIgual(perc, MismatchLimite, 1)
    THEN <<Mensagem("warning", "mismatch")>>
    ELSE <<>>

\* lines 162-163
AlertasMismatch(perc) ==
    IF Maior(perc, MismatchLimite, 1)
    THEN <<Mensagem("warning", "mismatch")>>
    ELSE <<>>

Alertas ==
    /\ pc = "alertas"
    /\ mensagens' = mensagens \o AlertasIL(il_fof) \o AlertasMismatch(mismatch_perc)
    /\ pc' = "done"
    /\ UNCHANGED <<n_ativos, prazo_resgate_fof, df_hist, pl_total, vertices,
                   demanda_por_vertice, df_carteira, df_il, il_fof, mismatch_val,
                   mismatch_perc>>

\* runs ended by an uncaught exception
Crashed == {"IndexError_pl", "StreamlitAPIException_valor", "IndexError_il"}

\* any interaction re-runs the script; only the session state survives
Rerun ==
    /\ pc \in {"done", "stopped"} \cup Crashed
    /\ pc' = "sidebar"
    /\ UNCHANGED n_ativos
    /\ prazo_resgate_fof' = 0
    /\ df_hist' = None
    /\ pl_total' = 0
    /\ vertices' = <<>>
    /\ demanda_por_vertice' = <<>>
    /\ df_carteira' = <<>>
    /\ df_il' = <<>>
    /\ il_fof' = NaN
    /\ mismatch_val' = 0
    /\ mismatch_perc' = Quociente(0, 1)
    /\ mensagens' = <<>>

Run(Prazos, Arquivos, PLs, Fundos) ==
    \/ Sidebar(Prazos)
    \/ Carregar(Arquivos, PLs)
    \/ Demanda
    \/ Carteira(Fundos)
    \/ Resultados
    \/ KPIs
    \/ Alertas
    \/ Rerun

----------------------------------------------------------------------------
(* Specifications.  All run the same script; they differ in the inputs the  *)
(* user supplies (uploaded files, sidebar values, portfolio rows).          *)

AllCols == required_cols \cup {Data}

Holding(p, v) == [Prazo |-> p, Valor |-> v]

\* Portfolio-rich inputs: short histories, many portfolios.
DomCarteira ==
    [c \in AllCols |->
        IF c = Resgates_Brutos THEN {0, 8}
        ELSE IF c = Aportes_do_Dia THEN {0, 4}
        ELSE IF c = Patrimonio_Liquido THEN {0, 8}
        ELSE {1}]
ArquivosCarteira == Files({required_cols}, ShortLen, DomCarteira)
FundosCarteira == {Holding(p, v) : p \in {0, 30}, v \in {2, 3}}

Next == Run({1, 7}, ArquivosCarteira, {-8, 0, 8}, FundosCarteira)

Spec == Init /\ [][Next]_vars

\* Flow-rich inputs: longer histories with inflows and outflows, one portfolio.
DomFluxos ==
    [c \in AllCols |->
        IF c = Resgates_Brutos THEN {0, 1, 3}
        ELSE IF c = Aportes_do_Dia THEN {0, 1}
        ELSE IF c = Patrimonio_Liquido THEN {4}
        ELSE {1}]
ArquivosFluxos == Files({required_cols}, MaxLen, DomFluxos)

NextFluxos == Run({2, 5}, ArquivosFluxos, {4}, {Holding(0, 1)})

SpecFluxos == Init /\ [][NextFluxos]_vars

\* Schema-rich inputs: headers with padding, missing columns, a date column.
DomDados ==
    [c \in AllCols |->
        IF c = Resgates_Brutos THEN {0, 1}
        ELSE IF c = Aportes_do_Dia THEN {0}
        ELSE IF c = Patrimonio_Liquido THEN {4, 8}
        ELSE {1, 2}]
Padded(c) == <<" ">> \o c \o <<" ">>
Cabecalhos ==
    {required_cols,
     required_cols \cup {Data},
     {Padded(c) : c \in required_cols},
     {Data}}
    \cup {required_cols \ {c} : c \in required_cols}
ArquivosDados == Files(Cabecalhos, DataLen, DomDados)

NextDados == Run({1, 2, 5, 7, 63, 64}, ArquivosDados, {4}, {Holding(0, 1)})

SpecDados == Init /\ [][NextDados]_vars

----------------------------------------------------------------------------
(* Properties *)

\* sections after which the named result exists
ComDemanda == pc \in {"carteira", "resultados", "kpi", "alertas", "done"}
ComTabela == pc \in {"kpi", "alertas", "done"}

Linhas == 1 .. Len(df_il)

RECURSIVE SomaDe(_, _)
\* sum of f over the finite index set I
SomaDe(f, I) ==
    IF I = {} THEN 0
    ELSE LET i == CHOOSE j \in I : TRUE IN f[i] + SomaDe(f, I \ {i})

Valores == [i \in 1 .. Len(df_carteira) |-> df_carteira[i].Valor]

\* holdings redeemable within v days / slower than v days
Dentro(v) == {i \in 1 .. Len(df_carteira) : df_carteira[i].Prazo <= v}
Fora(v) == {i \in 1 .. Len(df_carteira) : df_carteira[i].Prazo > v}

TextosIL == {"IL < 1", "soft limit", "IL confortavel"}
Emitida(nivel, texto) ==
    \E i \in 1 .. Len(mensagens) : mensagens[i] = Mensagem(nivel, texto)
RotulosIL == {i \in 1 .. Len(mensagens) : mensagens[i].texto \in TextosIL}

\* C1: in every row of the result table the liquidity index is undefined
\* exactly when the demand is zero, otherwise it is supply / demand
\* (num / den = Oferta / (Demanda_Estressada / Escala)); no quotient of
\* the run has a zero denominator.
C1_LiquidityIndex ==
    /\ \A k \in Linhas :
          LET r == df_il[k] IN
          /\ r.IL.nan <=> r.Demanda_Estressada = 0
          /\ r.IL.den # 0
          /\ ~r.IL.nan =>
                r.IL.num * r.Demanda_Estressada = Escala * r.Oferta * r.IL.den
    /\ il_fof.den # 0
    /\ mismatch_perc.den # 0

C1_Witness ==
    /\ ComTabela
    /\ \E k \in Linhas : df_il[k].IL.nan
    /\ \E k \in Linhas : ~df_il[k].IL.nan /\ df_il[k].Oferta > 0

\* zero supply against a positive demand: IL is 0, not undefined
C1_WitnessZeroSupply ==
    /\ ComTabela
    /\ \E k \in Linhas : ~df_il[k].IL.nan /\ df_il[k].Oferta = 0

\* C2: at the end of a run, with s the supply and d the demand (hundredths)
\* at the FoF's horizon: if IL is undefined no IL label is shown; otherwise
\* exactly one is shown, CRITICAL iff s/d < 1, WARNING iff 1 <= s/d < soft
\* limit, OK iff s/d >= soft limit.
C2_Classification ==
    pc = "done" =>
        LET s == SomaDe(Valores, Dentro(prazo_resgate_fof))
            d == demanda_por_vertice[prazo_resgate_fof]
            critico == Escala * s < d
            atencao == Escala * s >= d /\ Escala * Escala * s < SoftLimitNum * d
            ok == Escala * Escala * s >= SoftLimitNum * d
        IN  IF il_fof.nan
            THEN d = 0 /\ RotulosIL = {}
            ELSE /\ Cardinality(RotulosIL) = 1
                 /\ Emitida("error", "IL < 1") <=> critico
                 /\ Emitida("warning", "soft limit") <=> atencao
                 /\ Emitida("success", "IL confortavel") <=> ok

\* IL exactly at the soft limit, reported OK
C2_Witness ==
    /\ pc = "done"
    /\ ~il_fof.nan
    /\ il_fof.num * Escala = SoftLimitNum * il_fof.den
    /\ Emitida("success", "IL confortavel")

\* IL exactly 1.0, reported WARNING
C2_WitnessOne ==
    /\ pc = "done"
    /\ ~il_fof.nan
    /\ il_fof.num = il_fof.den
    /\ Emitida("warning", "soft limit")

C2_WitnessInside ==
    /\ pc = "done"
    /\ ~il_fof.nan
    /\ il_fof.num > il_fof.den
    /\ il_fof.num * Escala < SoftLimitNum * il_fof.den
    /\ Emitida("warning", "soft limit")

C2_WitnessUndefined == pc = "done" /\ il_fof.nan /\ RotulosIL = {}

\* C4: at the end of a run the mismatch warning is shown exactly when the
\* net asset value is positive and the value of the holdings slower than
\* the FoF's horizon is strictly more than 25% of it; whatever the IL label.
C4_Mismatch ==
    pc = "done" =>
        LET m == SomaDe(Valores, Fora(prazo_resgate_fof))
        IN  /\ mismatch_val = m
            /\ Emitida("warning", "mismatch") <=>
                  (pl_total > 0 /\ Cento * m > MismatchLimite * pl_total)
            /\ pl_total <= 0 => mismatch_perc = Quociente(0, 1)

\* both alerts in one run
C4_Witness ==
    /\ pc = "done"
    /\ Emitida("warning", "mismatch")
    /\ Emitida("error", "IL < 1")

\* exactly 25%: no warning
C4_WitnessExact ==
    /\ pc = "done"
    /\ pl_total > 0
    /\ Cento * mismatch_val = MismatchLimite * pl_total
    /\ ~Emitida("warning", "mismatch")

C4_WitnessOk == pc = "done" /\ Emitida("warning", "mismatch")
                    /\ Emitida("success", "IL confortavel")
C4_WitnessWarn == pc = "done" /\ Emitida("warning", "mismatch")
                    /\ Emitida("warning", "soft limit")
C4_WitnessNan == pc = "done" /\ Emitida("warning", "mismatch") /\ il_fof.nan
C4_WitnessNoPL == pc = "done" /\ pl_total <= 0 /\ mismatch_val > 0

\* C5: the supply of each row is the sum of the values of the holdings
\* whose notice period is at most the row's vertex, and the supply column
\* is non-decreasing from the first row to the last.
C5_SupplyMonotone ==
    ComTabela =>
        /\ \A k \in Linhas :
              df_il[k].Oferta = SomaDe(Valores, Dentro(vertices[k]))
        /\ \A j, k \in Linhas : j <= k => df_il[j].Oferta <= df_il[k].Oferta

C5_Witness ==
    /\ ComTabela
    /\ \E j, k \in Linhas :
          /\ j < k
          /\ 0 < df_il[j].Oferta
          /\ df_il[j].Oferta < df_il[k].Oferta

\* C7: the vertex list is the base set united with the FoF's horizon,
\* strictly ascending (5 entries when the horizon is a base value, else 6);
\* the result table has one row per vertex in that order, and exactly one
\* row carries the label of the FoF's horizon, so the KPI lookup succeeds.
C7_Vertices ==
    /\ pc # "IndexError_il"
    /\ ComDemanda =>
          /\ {vertices[k] : k \in 1 .. Len(vertices)} =
                {1, 5, 21, 42, 63} \cup {prazo_resgate_fof}
          /\ \A k \in 1 .. Len(vertices) - 1 : vertices[k] < vertices[k + 1]
          /\ Len(vertices) = IF prazo_resgate_fof \in {1, 5, 21, 42, 63} THEN 5 ELSE 6
    /\ ComTabela =>
          /\ Len(df_il) = Len(vertices)
          /\ \A k \in Linhas : df_il[k].Vertice = <<"D+", vertices[k]>>
          /\ Cardinality({k \in Linhas :
                            df_il[k].Vertice = <<"D+", prazo_resgate_fof>>}) = 1

\* a horizon that is already a base vertex: five rows
C7_Witness ==
    /\ pc = "done"
    /\ prazo_resgate_fof = 5
    /\ Len(df_il) = 5

C7_WitnessSix ==
    /\ pc = "done"
    /\ prazo_resgate_fof = 64
    /\ Len(df_il) = 6
    /\ df_il[6].Vertice = <<"D+", 64>>

Carregado == ~df_hist.isNone
ComFluxo == Carregado /\ Fluxo_Risco \in df_hist.columns
Historico == 1 .. Len(df_hist.rows)
Riscos == [i \in Historico |-> df_hist.rows[i][Fluxo_Risco]]
\* the sums of the windows of length v, by window start
Somas(v) ==
    [k \in 1 .. (Len(df_hist.rows) - v + 1) |-> SomaDe(Riscos, k .. (k + v - 1))]

\* C8: in every record netFlow = contributions - redemptions, riskFlow is
\* non-negative, equal to -netFlow when netFlow < 0 and 0 otherwise; every
\* window sum and every demand is non-negative.
C8_RiskFlow ==
    /\ ComFluxo =>
          \A i \in Historico :
              LET r == df_hist.rows[i] IN
              /\ r[Fluxo_Liquido] = r[Aportes_do_Dia] - r[Resgates_Brutos]
              /\ r[Fluxo_Risco] >= 0
              /\ r[Fluxo_Liquido] < 0 => r[Fluxo_Risco] = -r[Fluxo_Liquido]
              /\ r[Fluxo_Liquido] >= 0 => r[Fluxo_Risco] = 0
    /\ ComDemanda =>
          \A v \in DOMAIN demanda_por_vertice :
              /\ demanda_por_vertice[v] >= 0
              /\ ComFluxo => \A k \in DOMAIN Somas(v) : Somas(v)[k] >= 0

C8_Witness ==
    /\ ComDemanda
    /\ ComFluxo
    /\ \E i \in Historico : df_hist.rows[i][Fluxo_Liquido] < 0
    /\ \E i \in Historico : df_hist.rows[i][Fluxo_Liquido] > 0
    /\ \E i \in Historico : df_hist.rows[i][Fluxo_Liquido] = 0
    /\ \E v \in DOMAIN demanda_por_vertice : demanda_por_vertice[v] > 0

\* the j-th smallest (j from 0) of the n values of f
OrdemEstat(f, n, j) ==
    CHOOSE x \in {f[k] : k \in 1 .. n} :
        /\ Cardinality({k \in 1 .. n : f[k] < x}) <= j
        /\ Cardinality({k \in 1 .. n : f[k] <= x}) > j

\* C10: for a history of length L >= v, demand(v) is the 99th percentile
\* with linear interpolation of the L - v + 1 window sums: with position
\* p = 0.99 (n - 1), s[floor p] + (p - floor p) (s[ceil p] - s[floor p]);
\* it lies between the smallest and the largest window sum and is the
\* single window sum when L = v.  (All in hundredths.)
C10_Percentile ==
    (ComDemanda /\ ComFluxo) =>
        \A v \in DOMAIN demanda_por_vertice :
            Len(df_hist.rows) >= v =>
                LET n == Len(df_hist.rows) - v + 1
                    s == Somas(v)
                    p == Percentil * (n - 1)
                    fl == p \div Escala
                    ce == IF p % Escala = 0 THEN fl ELSE fl + 1
                    a == OrdemEstat(s, n, fl)
                    b == OrdemEstat(s, n, ce)
                    d == demanda_por_vertice[v]
                IN  /\ d = Escala * a + (p - Escala * fl) * (b - a)
                    /\ Escala * OrdemEstat(s, n, 0) <= d
                    /\ d <= Escala * OrdemEstat(s, n, n - 1)
                    /\ n = 1 => d = Escala * s[1]

\* at least three windows and an interpolated value strictly between two sums
C10_Witness ==
    /\ ComDemanda
    /\ ComFluxo
    /\ \E v \in DOMAIN demanda_por_vertice :
          /\ Len(df_hist.rows) - v + 1 >= 3
          /\ demanda_por_vertice[v] % Escala # 0

\* the boundary L = v with a positive single window
C10_WitnessSingle ==
    /\ ComDemanda
    /\ ComFluxo
    /\ \E v \in DOMAIN demanda_por_vertice :
          /\ Len(df_hist.rows) = v
          /\ v > 1
          /\ demanda_por_vertice[v] > 0

\* C3: a history shorter than a vertex (absent, empty or of length L < v)
\* is not an error: the demand of that vertex is 0, the other vertices are
\* still computed, and with no history every demand is 0 and every
\* liquidity index undefined.
C3_InsufficientHistory ==
    /\ pc # "IndexError_pl"
    /\ ComDemanda =>
          \A v \in DOMAIN demanda_por_vertice :
              /\ Len(df_hist.rows) < v => demanda_por_vertice[v] = 0
              /\ (ComFluxo /\ Len(df_hist.rows) >= v) =>
                    demanda_por_vertice[v] >= Escala * OrdemEstat(Somas(v),
                                                Len(df_hist.rows) - v + 1, 0)
    /\ (ComTabela /\ Len(df_hist.rows) = 0) => \A k \in Linhas : df_il[k].IL.nan

\* what remains of C3 for the runs that get past the loading section
C3_Computed ==
    /\ ComDemanda =>
          \A v \in DOMAIN demanda_por_vertice :
              /\ Len(df_hist.rows) < v => demanda_por_vertice[v] = 0
              /\ (ComFluxo /\ Len(df_hist.rows) >= v) =>
                    demanda_por_vertice[v] >= Escala * OrdemEstat(Somas(v),
                                                Len(df_hist.rows) - v + 1, 0)
    /\ (ComTabela /\ Len(df_hist.rows) = 0) => \A k \in Linhas : df_il[k].IL.nan

\* C6: a history lacking a required column gives the schema error and the
\* run stops with nothing computed; with the three columns present no
\* schema error is shown and the run goes on to the result table.
C6_SchemaError ==
    /\ (Carregado /\ ~SchemaOk(df_hist)) =>
          /\ pc = "stopped"
          /\ mensagens = <<Mensagem("error", "colunas")>>
          /\ ~ComFluxo
          /\ vertices = <<>> /\ demanda_por_vertice = <<>>
          /\ df_carteira = <<>> /\ df_il = <<>>
          /\ il_fof = NaN /\ mismatch_val = 0
    /\ (Carregado /\ SchemaOk(df_hist)) =>
          /\ ~Emitida("error", "colunas")
          /\ pc \notin {"stopped"} \cup Crashed

\* what remains of C6 without the last conjunct
C6_SchemaStop ==
    /\ (Carregado /\ ~SchemaOk(df_hist)) =>
          /\ pc = "stopped"
          /\ mensagens = <<Mensagem("error", "colunas")>>
          /\ ~ComFluxo
          /\ vertices = <<>> /\ demanda_por_vertice = <<>>
          /\ df_carteira = <<>> /\ df_il = <<>>
          /\ il_fof = NaN /\ mismatch_val = 0
    /\ (Carregado /\ SchemaOk(df_hist)) =>
          /\ ~Emitida("error", "colunas")
          /\ pc # "stopped"
    /\ pc = "stopped" => Carregado /\ ~SchemaOk(df_hist)

\* C9: when the input carries a timestamp column, the series the engine
\* works on is in ascending order of it.
C9_Chronological ==
    (ComDemanda /\ ComFluxo /\ Data \in df_hist.columns) =>
        \A i, j \in Historico : i <= j => df_hist.rows[i][Data] <= df_hist.rows[j][Data]

\* what the program does instead: the value used is that of the first row
C9_FirstRow ==
    (ComDemanda /\ ComFluxo) => pl_total = df_hist.rows[1][Patrimonio_Liquido]

====
